---- MODULE Spec2Model ----
(***************************************************************************)
(* A model of websim-socket: the deep-merge function, the PartyKit room    *)
(* server (WebsimServer, the Relay) and the client (WebsimSocket, the      *)
(* Replica), with the transport between them as FIFO queues.               *)
(***************************************************************************)
EXTENDS Integers, Sequences, FiniteSets, TLC

(***************************************************************************)
(* JSON values.  A JSON object is a function from a finite set of keys to  *)
(* values; a value is tagged with what JavaScript can tell about it:       *)
(* a number, null, an array (opaque) or an object.                         *)
(***************************************************************************)
Keys == {"a", "b"}

MaxNum == 1

Num(n) == [k |-> "number", v |-> n]
Null == [k |-> "null"]
Arr == [k |-> "array"]
Obj(m) == [k |-> "object", m |-> m]

EmptyObj == [x \in {} |-> Null]

\* typeof v === "object": true of objects, arrays and null.
TypeofObject(v) == v.k \in {"object", "array", "null"}

\* Array.isArray(v)
IsArray(v) == v.k = "array"

\* All objects over Keys whose values come from vals.
ObjectsOver(vals) == UNION {[d -> vals] : d \in SUBSET Keys}

Leaves == {Num(n) : n \in 1..MaxNum} \cup {Null, Arr}
Objects1 == ObjectsOver(Leaves)
Values2 == Leaves \cup {Obj(m) : m \in Objects1}

\* A single key holding v.
One(key, v) == [x \in {key} |-> v]

\* deepMerge with the test on result[key] !== null left out.
RECURSIVE deepMergeNoNullTest(_, _)
deepMergeNoNullTest(target, source) ==
  LET keep == (DOMAIN target \cup DOMAIN source)
                \ {key \in DOMAIN source : source[key] = Null}
      tgt(key) == IF key \in DOMAIN target /\ target[key].k = "object"
                  THEN target[key].m ELSE EmptyObj
  IN [key \in keep |->
        IF key \notin DOMAIN source THEN target[key]
        ELSE IF /\ TypeofObject(source[key])
                /\ ~IsArray(source[key])
                /\ key \in DOMAIN target
                /\ TypeofObject(target[key])
                /\ ~IsArray(target[key])
             THEN Obj(deepMergeNoNullTest(tgt(key), source[key].m))
             ELSE source[key]]

\* deepMerge(target, source): a new object; target is not changed.  The loop
\* over Object.keys(source) treats each key on its own: a null deletes the
\* key, two objects are merged, anything else replaces.
RECURSIVE deepMerge(_, _)
deepMerge(target, source) ==
  LET keep == (DOMAIN target \cup DOMAIN source)
                \ {key \in DOMAIN source : source[key] = Null}
  IN [key \in keep |->
        IF key \notin DOMAIN source THEN target[key]
        ELSE IF /\ TypeofObject(source[key])
                /\ ~IsArray(source[key])
                /\ key \in DOMAIN target
                /\ TypeofObject(target[key])
                /\ ~IsArray(target[key])
                /\ target[key] # Null
             THEN Obj(deepMerge(target[key].m, source[key].m))
             ELSE source[key]]


(***************************************************************************)
(* Identities, connection metadata and the inputs of the model.            *)
(***************************************************************************)
Ids == {"c1", "c2", "c3"}

\* The ids whose clients take part when server and clients run together.
Clients == {"c1", "c2"}

\* An id no connection of the room has.
UnknownId == "zz"

\* The query string each connection comes with: username and avatarUrl, each
\* possibly empty.
MetaOf(id) == CASE id = "c1" -> [username |-> "", avatarUrl |-> ""]
                [] id = "c2" -> [username |-> "ann", avatarUrl |-> "pic"]
                [] OTHER -> [username |-> "bob", avatarUrl |-> ""]

\* `Guest-${conn.id.slice(0, 4)}`: the ids of the model have at most four
\* characters, so the slice is the whole id.
DefaultUsername(id) == "Guest-" \o id

\* `https://api.dicebear.com/7.x/pixel-art/svg?seed=${conn.id}`
DefaultAvatarUrl(id) == "https://api.dicebear.com/7.x/pixel-art/svg?seed=" \o id

\* The patches clients send: a set, a delete, nested sets and a nested delete.
Patches == { One("a", Num(1)),
             One("a", Null),
             One("a", Obj(One("b", Num(1)))),
             One("a", Obj(One("b", Null))) }

\* The payload of a request-presence-update.
Updates == { One("a", Num(1)) }

\* The events clients broadcast: a function from field names to values.  The
\* field n numbers the event; echo, clientId and username may be absent.
EventsOf(n) ==
  LET base == [f \in {"type", "n"} |-> IF f = "type" THEN "x" ELSE n]
      withEcho(b) == [f \in DOMAIN base \cup {"echo"} |->
                        IF f = "echo" THEN b ELSE base[f]]
      withIds == [f \in DOMAIN base \cup {"clientId", "username"} |->
                    IF f = "clientId" THEN "c2"
                    ELSE IF f = "username" THEN "mallory" ELSE base[f]]
  IN {base, withEcho(TRUE), withEcho(FALSE), withIds}

\* The events the clients of the model broadcast: those without fields of
\* their own named clientId and username.
ClientEvents(n) == {e \in EventsOf(n) : "clientId" \notin DOMAIN e}

\* Maps as JavaScript objects: set a key, delete a key.
Put(f, key, v) == [x \in DOMAIN f \cup {key} |-> IF x = key THEN v ELSE f[x]]
Del(f, key) == [x \in DOMAIN f \ {key} |-> f[x]]

(***************************************************************************)
(* The wire: JSON.stringify makes a text frame of a message, JSON.parse    *)
(* gives the message back or throws on text that is not JSON.              *)
(***************************************************************************)
Stringify(msg) == [text |-> "json", value |-> msg]
Garbage == [text |-> "garbage"]
Parse(frame) == IF frame.text = "json"
                THEN [ok |-> TRUE, value |-> frame.value]
                ELSE [ok |-> FALSE]

VARIABLES
  conn,       \* transport: each id's connection, "none", "open" or "closed"
  peers,      \* WebsimServer.peers
  presence,   \* WebsimServer.presence
  roomState,  \* WebsimServer.roomState
  sent,       \* what the last handler of the server sent: batches [to, msg]
  threw,      \* whether the last handler of the server ended in an exception
  hist,       \* history: the update-presence patches handled, per sender
  first       \* history: the type of the first message sent to each connection

rvars == <<conn, peers, presence, roomState, sent, threw, hist, first>>

\* this.room.getConnections()
Connections == {c \in Ids : conn[c] = "open"}

\* What a handler leaves behind: the three fields, the batches sent, and
\* whether it threw.
Result(pe, pr, rs, out) ==
  [peers |-> pe, presence |-> pr, roomState |-> rs, out |-> out, err |-> FALSE]

\* A handler that returns early, or throws before it changed anything.
Nothing == Result(peers, presence, roomState, <<>>)
Throws == [Nothing EXCEPT !.err = TRUE]

\* send(conn, msg)
send(to, msg) == [to |-> {to}, msg |-> msg]

\* broadcast(msg, exclude): to every connection of the room not excluded,
\* given the connections the room has.
broadcast(conns, msg, exclude) == [to |-> conns \ exclude, msg |-> msg]

\* getConnection(id): the connection with that id, if the room has it.
getConnection(conns, id) == IF id \in conns THEN {id} ELSE {}

\* onConnect that makes no presence entry for the new client.
onConnectNoPresenceEntry(conns, id, meta) ==
    LET username == IF meta.username # "" THEN meta.username
                  ELSE DefaultUsername(id)
      avatarUrl == IF meta.avatarUrl # "" THEN meta.avatarUrl
                   ELSE DefaultAvatarUrl(id)
      pe == Put(peers, id, [username |-> username, avatarUrl |-> avatarUrl])
  IN Result(pe, presence, roomState,
       << send(id, [type |-> "init", clientId |-> id, roomState |-> roomState,
                    presence |-> presence, peers |-> pe]),
          broadcast(conns, [type |-> "peer-joined", clientId |-> id,
                            username |-> username, avatarUrl |-> avatarUrl], {id}),
          broadcast(conns, [type |-> "presence-updated", clientId |-> id,
                            presence |-> EmptyObj], {id}) >>)

\* onConnect that does not broadcast peer-joined.
onConnectNoPeerJoined(conns, id, meta) ==
    LET username == IF meta.username # "" THEN meta.username
                  ELSE DefaultUsername(id)
      avatarUrl == IF meta.avatarUrl # "" THEN meta.avatarUrl
                   ELSE DefaultAvatarUrl(id)
      pe == Put(peers, id, [username |-> username, avatarUrl |-> avatarUrl])
      pr == Put(presence, id, EmptyObj)
  IN Result(pe, pr, roomState,
       << send(id, [type |-> "init", clientId |-> id, roomState |-> roomState,
                    presence |-> pr, peers |-> pe]),
          broadcast(conns, [type |-> "presence-updated", clientId |-> id,
                            presence |-> EmptyObj], {id}) >>)

\* onConnect that broadcasts to the whole room before it sends init.
onConnectBroadcastsFirst(conns, id, meta) ==
  LET username == IF meta.username # "" THEN meta.username
                  ELSE DefaultUsername(id)
      avatarUrl == IF meta.avatarUrl # "" THEN meta.avatarUrl
                   ELSE DefaultAvatarUrl(id)
      pe == Put(peers, id, [username |-> username, avatarUrl |-> avatarUrl])
      pr == Put(presence, id, EmptyObj)
  IN Result(pe, pr, roomState,
       << broadcast(conns, [type |-> "peer-joined", clientId |-> id,
                            username |-> username, avatarUrl |-> avatarUrl], {}),
          send(id, [type |-> "init", clientId |-> id, roomState |-> roomState,
                    presence |-> pr, peers |-> pe]),
          broadcast(conns, [type |-> "presence-updated", clientId |-> id,
                            presence |-> EmptyObj], {id}) >>)

\* onConnect that broadcasts the empty presence before peer-joined.
onConnectPresenceFirst(conns, id, meta) ==
  LET username == IF meta.username # "" THEN meta.username
                  ELSE DefaultUsername(id)
      avatarUrl == IF meta.avatarUrl # "" THEN meta.avatarUrl
                   ELSE DefaultAvatarUrl(id)
      pe == Put(peers, id, [username |-> username, avatarUrl |-> avatarUrl])
      pr == Put(presence, id, EmptyObj)
  IN Result(pe, pr, roomState,
       << send(id, [type |-> "init", clientId |-> id, roomState |-> roomState,
                    presence |-> pr, peers |-> pe]),
          broadcast(conns, [type |-> "presence-updated", clientId |-> id,
                            presence |-> EmptyObj], {id}),
          broadcast(conns, [type |-> "peer-joined", clientId |-> id,
                            username |-> username, avatarUrl |-> avatarUrl], {id}) >>)

\* onConnect that does not broadcast the new client's empty presence.
onConnectNoPresenceBroadcast(conns, id, meta) ==
  LET username == IF meta.username # "" THEN meta.username
                  ELSE DefaultUsername(id)
      avatarUrl == IF meta.avatarUrl # "" THEN meta.avatarUrl
                   ELSE DefaultAvatarUrl(id)
      pe == Put(peers, id, [username |-> username, avatarUrl |-> avatarUrl])
      pr == Put(presence, id, EmptyObj)
  IN Result(pe, pr, roomState,
       << send(id, [type |-> "init", clientId |-> id, roomState |-> roomState,
                    presence |-> pr, peers |-> pe]),
          broadcast(conns, [type |-> "peer-joined", clientId |-> id,
                            username |-> username, avatarUrl |-> avatarUrl], {id}) >>)

\* onConnect(conn, ctx), with the room's connections including the new one.
onConnect(conns, id, meta) ==
  LET username == IF meta.username # "" THEN meta.username
                  ELSE DefaultUsername(id)
      avatarUrl == IF meta.avatarUrl # "" THEN meta.avatarUrl
                   ELSE DefaultAvatarUrl(id)
      pe == Put(peers, id, [username |-> username, avatarUrl |-> avatarUrl])
      pr == Put(presence, id, EmptyObj)
  IN Result(pe, pr, roomState,
       << send(id, [type |-> "init", clientId |-> id, roomState |-> roomState,
                    presence |-> pr, peers |-> pe]),
          broadcast(conns, [type |-> "peer-joined", clientId |-> id,
                            username |-> username, avatarUrl |-> avatarUrl], {id}),
          broadcast(conns, [type |-> "presence-updated", clientId |-> id,
                            presence |-> EmptyObj], {id}) >>)

\* case "update-presence" that stores the patch instead of merging it.
onUpdatePresenceReplaces(conns, msg, sender) ==
  IF "presence" \notin DOMAIN msg THEN Throws
  ELSE LET pr == Put(presence, sender, msg.presence)
       IN Result(peers, pr, roomState,
            << broadcast(conns, [type |-> "presence-updated", clientId |-> sender,
                                 presence |-> pr[sender]], {}) >>)

\* case "update-presence"
onUpdatePresence(conns, msg, sender) ==
  IF "presence" \notin DOMAIN msg THEN Throws
  ELSE LET old == IF sender \in DOMAIN presence THEN presence[sender] ELSE EmptyObj
           pr == Put(presence, sender, deepMerge(old, msg.presence))
       IN Result(peers, pr, roomState,
            << broadcast(conns, [type |-> "presence-updated", clientId |-> sender,
                                 presence |-> pr[sender]], {}) >>)

\* case "update-room-state" that broadcasts the patch instead of the merged
\* value.
onUpdateRoomStateSendsPatch(conns, msg, sender) ==
  IF "roomState" \notin DOMAIN msg THEN Throws
  ELSE LET rs == deepMerge(roomState, msg.roomState)
       IN Result(peers, presence, rs,
            << broadcast(conns, [type |-> "room-state-updated",
                                 roomState |-> msg.roomState], {}) >>)

\* case "update-room-state"
onUpdateRoomState(conns, msg, sender) ==
  IF "roomState" \notin DOMAIN msg THEN Throws
  ELSE LET rs == deepMerge(roomState, msg.roomState)
       IN Result(peers, presence, rs,
            << broadcast(conns, [type |-> "room-state-updated", roomState |-> rs], {}) >>)

\* case "request-presence-update" that applies the update to the target's
\* presence itself.
onRequestPresenceUpdateEdits(conns, msg, sender) ==
  LET target == IF "targetClientId" \in DOMAIN msg
                THEN getConnection(conns, msg.targetClientId) ELSE {}
  IN IF target # {}
     THEN Result(peers,
            [c \in DOMAIN presence |->
               IF c \in target THEN deepMerge(presence[c], msg.update)
               ELSE presence[c]],
            roomState,
            << [to |-> target,
                msg |-> [type |-> "presence-update-request",
                         update |-> msg.update, fromClientId |-> sender]] >>)
     ELSE Nothing

\* case "request-presence-update" that broadcasts the request.
onRequestPresenceUpdateBroadcasts(conns, msg, sender) ==
  Result(peers, presence, roomState,
    << broadcast(conns, [type |-> "presence-update-request",
                         update |-> msg.update, fromClientId |-> sender], {}) >>)

\* case "request-presence-update"
onRequestPresenceUpdate(conns, msg, sender) ==
  LET target == IF "targetClientId" \in DOMAIN msg
                THEN getConnection(conns, msg.targetClientId) ELSE {}
  IN IF target # {}
     THEN Result(peers, presence, roomState,
            << [to |-> target,
                msg |-> [type |-> "presence-update-request",
                         update |-> msg.update, fromClientId |-> sender]] >>)
     ELSE Nothing

\* case "broadcast-event" that never excludes the sender.
onBroadcastEventEchoes(conns, msg, sender) ==
  IF "event" \notin DOMAIN msg THEN Throws
  ELSE LET event == msg.event
           rest == DOMAIN event \ {"echo", "type"}
           eventData == [f \in {"type", "clientId", "username"} \cup rest |->
                           IF f \in rest THEN event[f]
                           ELSE IF f = "type" THEN event.type
                           ELSE IF f = "clientId" THEN sender
                           ELSE peers[sender].username]
       IN Result(peers, presence, roomState,
            << broadcast(conns, [type |-> "event", data |-> eventData], {}) >>)

\* case "broadcast-event" with echo defaulting to false.
onBroadcastEventNoEchoDefault(conns, msg, sender) ==
  IF "event" \notin DOMAIN msg THEN Throws
  ELSE LET event == msg.event
           echo == IF "echo" \in DOMAIN event THEN event.echo ELSE FALSE
           rest == DOMAIN event \ {"echo", "type"}
           eventData == [f \in {"type", "clientId", "username"} \cup rest |->
                           IF f \in rest THEN event[f]
                           ELSE IF f = "type" THEN event.type
                           ELSE IF f = "clientId" THEN sender
                           ELSE peers[sender].username]
           exclude == IF echo THEN {} ELSE {sender}
       IN Result(peers, presence, roomState,
            << broadcast(conns, [type |-> "event", data |-> eventData], exclude) >>)

\* case "broadcast-event": { echo = true, type, ...rest } = msg.event; the
\* fields of rest are spread after clientId and username.
onBroadcastEvent(conns, msg, sender) ==
  IF "event" \notin DOMAIN msg THEN Throws
  ELSE LET event == msg.event
           echo == IF "echo" \in DOMAIN event THEN event.echo ELSE TRUE
           rest == DOMAIN event \ {"echo", "type"}
           eventData == [f \in {"type", "clientId", "username"} \cup rest |->
                           IF f \in rest THEN event[f]
                           ELSE IF f = "type" THEN event.type
                           ELSE IF f = "clientId" THEN sender
                           ELSE peers[sender].username]
           exclude == IF echo THEN {} ELSE {sender}
       IN Result(peers, presence, roomState,
            << broadcast(conns, [type |-> "event", data |-> eventData], exclude) >>)

\* onMessage(message, sender)
onMessage(conns, message, sender) ==
  LET parsed == Parse(message)
  IN IF ~parsed.ok THEN Nothing
     ELSE IF sender \notin DOMAIN peers THEN Nothing
     ELSE LET msg == parsed.value
          IN CASE msg.type = "update-presence" -> onUpdatePresence(conns, msg, sender)
               [] msg.type = "update-room-state" -> onUpdateRoomState(conns, msg, sender)
               [] msg.type = "request-presence-update" ->
                    onRequestPresenceUpdate(conns, msg, sender)
               [] msg.type = "broadcast-event" -> onBroadcastEvent(conns, msg, sender)
               [] OTHER -> Nothing

\* onClose that also broadcasts an empty presence for the closed connection.
onCloseAlsoClearsPresence(conns, id) ==
  IF id \notin DOMAIN peers THEN Nothing
  ELSE Result(Del(peers, id), Del(presence, id), roomState,
         << broadcast(conns, [type |-> "peer-left", clientId |-> id], {}),
            broadcast(conns, [type |-> "presence-updated", clientId |-> id,
                              presence |-> EmptyObj], {}) >>)

\* onClose that empties the room state when the last connection closes.
onCloseResetsRoom(conns, id) ==
  IF id \notin DOMAIN peers THEN Nothing
  ELSE Result(Del(peers, id), Del(presence, id),
              IF DOMAIN peers = {id} THEN EmptyObj ELSE roomState,
         << broadcast(conns, [type |-> "peer-left", clientId |-> id], {}) >>)

\* onClose without the test for the closed connection's entry.
onCloseAlwaysBroadcasts(conns, id) ==
  Result(Del(peers, id), Del(presence, id), roomState,
    << broadcast(conns, [type |-> "peer-left", clientId |-> id], {}) >>)

\* onClose that leaves the presence entry behind.
onCloseKeepsPresence(conns, id) ==
  IF id \notin DOMAIN peers THEN Nothing
  ELSE Result(Del(peers, id), presence, roomState,
         << broadcast(conns, [type |-> "peer-left", clientId |-> id], {}) >>)

\* onClose(conn), with the room's connections no longer including it.
onClose(conns, id) ==
  IF id \notin DOMAIN peers THEN Nothing
  ELSE Result(Del(peers, id), Del(presence, id), roomState,
         << broadcast(conns, [type |-> "peer-left", clientId |-> id], {}) >>)

\* The messages among the batches that go to connection c, in order.
RECURSIVE MsgsTo(_, _)
MsgsTo(out, c) ==
  IF out = <<>> THEN <<>>
  ELSE (IF c \in Head(out).to THEN <<Head(out).msg>> ELSE <<>>) \o MsgsTo(Tail(out), c)

\* The server's fields and the histories after a handler with result r.
Apply(r) ==
  /\ peers' = r.peers
  /\ presence' = r.presence
  /\ roomState' = r.roomState
  /\ threw' = r.err
  /\ first' = [c \in Ids |->
                 IF first[c] = "none" /\ MsgsTo(r.out, c) # <<>>
                 THEN Head(MsgsTo(r.out, c)).type ELSE first[c]]

(***************************************************************************)
(* The server alone, driven by the transport: connections open and close,  *)
(* and any frame may arrive from an open connection.                       *)
(***************************************************************************)
MaxHist == 2

RECURSIVE SumLen(_, _)
SumLen(h, S) == IF S = {} THEN 0
                ELSE LET c == CHOOSE x \in S : TRUE
                     IN Len(h[c]) + SumLen(h, S \ {c})

\* The messages a connection may send to the server, well-formed or not.
ClientMessages ==
  {[type |-> "update-presence", presence |-> p] : p \in Patches}
  \cup {[type |-> "update-room-state", roomState |-> p] : p \in Patches}
  \cup {[type |-> "request-presence-update", targetClientId |-> t, update |-> u] :
          t \in Ids \cup {UnknownId}, u \in Updates}
  \cup {[type |-> "broadcast-event", event |-> e] : e \in EventsOf(0)}

Frames == {Stringify(m) : m \in ClientMessages}

\* The patch of a frame the server will merge into the sender's presence.
IsPresencePatch(frame) ==
  /\ frame.text = "json"
  /\ frame.value.type = "update-presence"
  /\ "presence" \in DOMAIN frame.value

RelayInit ==
  /\ conn = [c \in Ids |-> "none"]
  /\ peers = [c \in {} |-> 0]
  /\ presence = [c \in {} |-> EmptyObj]
  /\ roomState = EmptyObj
  /\ sent = <<>>
  /\ threw = FALSE
  /\ hist = [c \in Ids |-> <<>>]
  /\ first = [c \in Ids |-> "none"]

\* What the handlers return in the current state: onConnect with the room's
\* connections including the new one, onClose with them no longer including
\* the closed one.
Connected(c) == onConnect(Connections \cup {c}, c, MetaOf(c))
Messaged(c, frame) == onMessage(Connections, frame, c)
Closed(c) == onClose(Connections \ {c}, c)

\* The transport accepts connection c and the server runs onConnect.
OpenConn(c) ==
  /\ conn[c] = "none"
  /\ conn' = [conn EXCEPT ![c] = "open"]
  /\ Apply(Connected(c))
  /\ UNCHANGED hist

\* The transport hands a frame of open connection c to onMessage.
HandleFrame(c, frame) ==
  /\ conn[c] = "open"
  /\ IsPresencePatch(frame) => SumLen(hist, Ids) < MaxHist
  /\ Apply(Messaged(c, frame))
  /\ hist' = IF IsPresencePatch(frame) /\ c \in DOMAIN peers
             THEN [hist EXCEPT ![c] = Append(@, frame.value.presence)]
             ELSE hist
  /\ UNCHANGED conn

\* The transport reports connection c closed and the server runs onClose.
CloseConn(c) ==
  /\ conn[c] = "open"
  /\ conn' = [conn EXCEPT ![c] = "closed"]
  /\ Apply(Closed(c))
  /\ hist' = [hist EXCEPT ![c] = <<>>]

\* The three steps of the server taken alone: what the handler sent is kept
\* in sent.
Connect(c) == OpenConn(c) /\ sent' = Connected(c).out
Message(c, frame) == HandleFrame(c, frame) /\ sent' = Messaged(c, frame).out
Close(c) == CloseConn(c) /\ sent' = Closed(c).out

(***************************************************************************)
(* The client, WebsimSocket.  Each connection id has one client object;    *)
(* its fields are the fields of a record.                                  *)
(***************************************************************************)
VARIABLES
  replica,   \* the WebsimSocket object of each id
  toServer,  \* frames on their way from each client to the server, in order
  toClient,  \* frames on their way from the server to each client, in order
  got,       \* history: the numbers n of the events each onmessage was given
  events     \* history: who called send for event n, with which echo, and
             \* which connected clients had an onmessage handler then

nvars == <<replica, toServer, toClient, got, events>>

MaxEvents == 2

\* The fields of a WebsimSocket after construction.  socket is the state of
\* this.socket (null, or the readyState of the PartySocket); init is the
\* state of the promise initialize() returned ("idle" before the call, then
\* "pending", then "resolved", or rejected with the "timeout" error or with
\* the "error" event of the socket); timeout is the state of the timer that
\* initialize() sets; onmessage and the three subscriber sets hold callbacks.
NewReplica ==
  [ socket |-> "null", init |-> "idle", timeout |-> "none", clientId |-> "",
    presence |-> [c \in {} |-> EmptyObj],
    roomState |-> EmptyObj,
    peers |-> [c \in {} |-> 0],
    onmessage |-> FALSE,
    presenceSubscribers |-> {},
    roomStateSubscribers |-> {},
    presenceUpdateRequestSubscribers |-> {} ]

\* The value of a property of a parsed message: undefined when the message
\* has no such property.
Undefined == [k |-> "undefined"]
Field(msg, f) == IF f \in DOMAIN msg THEN msg[f] ELSE Undefined

\* What a step of the client leaves behind: the object and the callbacks
\* invoked, in order.
Handled(r, calls) == [r |-> r, calls |-> calls]

\* this.onmessage?.({ data })
CallOnmessage(r, data) ==
  IF r.onmessage THEN << [cb |-> "onmessage", data |-> data] >> ELSE <<>>

\* for (const cb of subscribers) cb(args)
CallEach(kind, subscribers, args) ==
  IF subscribers = {} THEN <<>>
  ELSE << [cb |-> kind, to |-> subscribers, args |-> args] >>

\* handleMessage(msg) that does not notify the presence subscribers of a
\* peer that left.
handleMessageSilentLeave(r, msg) ==
  CASE msg.type = "presence-updated" ->
         LET pr == Put(r.presence, msg.clientId, msg.presence)
         IN Handled([r EXCEPT !.presence = pr],
                    CallEach("presence", r.presenceSubscribers, <<pr>>))
    [] msg.type = "room-state-updated" ->
         Handled([r EXCEPT !.roomState = Field(msg, "roomState")],
                 CallEach("roomState", r.roomStateSubscribers,
                          <<Field(msg, "roomState")>>))
    [] msg.type = "presence-update-request" ->
         Handled(r, CallEach("presenceUpdateRequest",
                             r.presenceUpdateRequestSubscribers,
                             <<msg.update, msg.fromClientId>>))
    [] msg.type = "peer-joined" ->
         Handled([r EXCEPT !.peers = Put(r.peers, msg.clientId,
                                         [username |-> msg.username,
                                          avatarUrl |-> msg.avatarUrl])],
                 CallOnmessage(r, [type |-> "connected", clientId |-> msg.clientId,
                                   username |-> msg.username]))
    [] msg.type = "peer-left" ->
         LET username == IF msg.clientId \in DOMAIN r.peers
                         THEN r.peers[msg.clientId].username ELSE ""
             pr == Del(r.presence, msg.clientId)
         IN Handled([r EXCEPT !.peers = Del(r.peers, msg.clientId),
                              !.presence = pr],
                    CallOnmessage(r, [type |-> "disconnected",
                                      clientId |-> msg.clientId,
                                      username |-> username]))
    [] msg.type = "event" -> Handled(r, CallOnmessage(r, msg.data))
    [] OTHER -> Handled(r, <<>>)

\* handleMessage(msg) that merges a presence-updated value into the local one.
handleMessageMerges(r, msg) ==
  CASE msg.type = "presence-updated" ->
         LET own == IF msg.clientId \in DOMAIN r.presence
                    THEN r.presence[msg.clientId] ELSE EmptyObj
             pr == Put(r.presence, msg.clientId, deepMerge(own, msg.presence))
         IN Handled([r EXCEPT !.presence = pr],
                    CallEach("presence", r.presenceSubscribers, <<pr>>))
    [] msg.type = "room-state-updated" ->
         Handled([r EXCEPT !.roomState = Field(msg, "roomState")],
                 CallEach("roomState", r.roomStateSubscribers,
                          <<Field(msg, "roomState")>>))
    [] msg.type = "presence-update-request" ->
         Handled(r, CallEach("presenceUpdateRequest",
                             r.presenceUpdateRequestSubscribers,
                             <<msg.update, msg.fromClientId>>))
    [] msg.type = "peer-joined" ->
         Handled([r EXCEPT !.peers = Put(r.peers, msg.clientId,
                                         [username |-> msg.username,
                                          avatarUrl |-> msg.avatarUrl])],
                 CallOnmessage(r, [type |-> "connected", clientId |-> msg.clientId,
                                   username |-> msg.username]))
    [] msg.type = "peer-left" ->
         LET username == IF msg.clientId \in DOMAIN r.peers
                         THEN r.peers[msg.clientId].username ELSE ""
             pr == Del(r.presence, msg.clientId)
         IN Handled([r EXCEPT !.peers = Del(r.peers, msg.clientId),
                              !.presence = pr],
                    CallOnmessage(r, [type |-> "disconnected",
                                      clientId |-> msg.clientId,
                                      username |-> username])
                    \o CallEach("presence", r.presenceSubscribers, <<pr>>))
    [] msg.type = "event" -> Handled(r, CallOnmessage(r, msg.data))
    [] OTHER -> Handled(r, <<>>)

\* handleMessage(msg)
handleMessage(r, msg) ==
  CASE msg.type = "presence-updated" ->
         LET pr == Put(r.presence, msg.clientId, msg.presence)
         IN Handled([r EXCEPT !.presence = pr],
                    CallEach("presence", r.presenceSubscribers, <<pr>>))
    [] msg.type = "room-state-updated" ->
         Handled([r EXCEPT !.roomState = Field(msg, "roomState")],
                 CallEach("roomState", r.roomStateSubscribers,
                          <<Field(msg, "roomState")>>))
    [] msg.type = "presence-update-request" ->
         Handled(r, CallEach("presenceUpdateRequest",
                             r.presenceUpdateRequestSubscribers,
                             <<msg.update, msg.fromClientId>>))
    [] msg.type = "peer-joined" ->
         Handled([r EXCEPT !.peers = Put(r.peers, msg.clientId,
                                         [username |-> msg.username,
                                          avatarUrl |-> msg.avatarUrl])],
                 CallOnmessage(r, [type |-> "connected", clientId |-> msg.clientId,
                                   username |-> msg.username]))
    [] msg.type = "peer-left" ->
         LET username == IF msg.clientId \in DOMAIN r.peers
                         THEN r.peers[msg.clientId].username ELSE ""
             pr == Del(r.presence, msg.clientId)
         IN Handled([r EXCEPT !.peers = Del(r.peers, msg.clientId),
                              !.presence = pr],
                    CallOnmessage(r, [type |-> "disconnected",
                                      clientId |-> msg.clientId,
                                      username |-> username])
                    \o CallEach("presence", r.presenceSubscribers, <<pr>>))
    [] msg.type = "event" -> Handled(r, CallOnmessage(r, msg.data))
    [] OTHER -> Handled(r, <<>>)

\* The "message" listener that initialize() attaches to the socket.
onSocketMessage(r, frame) ==
  LET parsed == Parse(frame)
  IN IF ~parsed.ok THEN Handled(r, <<>>)
     ELSE LET msg == parsed.value
          IN IF msg.type = "init"
             THEN Handled([r EXCEPT !.clientId = msg.clientId,
                                    !.roomState = msg.roomState,
                                    !.presence = msg.presence,
                                    !.peers = msg.peers,
                                    !.timeout = IF @ = "armed" THEN "cleared" ELSE @,
                                    !.init = IF @ = "pending" THEN "resolved" ELSE @],
                          <<>>)
             ELSE handleMessage(r, msg)

\* sendToServer(msg): the frames the socket sends, none unless it is open.
sendToServer(r, msg) ==
  IF r.socket = "open" THEN << Stringify(msg) >> ELSE <<>>

\* The numbers of the events among the onmessage calls.
RECURSIVE EventNumbers(_)
EventNumbers(calls) ==
  IF calls = <<>> THEN {}
  ELSE (IF Head(calls).cb = "onmessage" /\ "n" \in DOMAIN Head(calls).data
        THEN {Head(calls).data.n} ELSE {})
       \cup EventNumbers(Tail(calls))

\* The frames of a sequence of messages.
RECURSIVE FramesOf(_)
FramesOf(msgs) ==
  IF msgs = <<>> THEN <<>> ELSE <<Stringify(Head(msgs))>> \o FramesOf(Tail(msgs))

\* The queues to the clients with what the server sent put on them.
Enqueue(out) == [d \in Ids |-> toClient[d] \o FramesOf(MsgsTo(out, d))]

NetInit ==
  /\ replica = [c \in Ids |-> NewReplica]
  /\ toServer = [c \in Ids |-> <<>>]
  /\ toClient = [c \in Ids |-> <<>>]
  /\ got = [c \in Ids |-> {}]
  /\ events = <<>>

\* initialize(): the client makes its socket, which starts to connect, and
\* sets the timer.
Initialize(c) ==
  /\ replica[c].init = "idle"
  /\ replica' = [replica EXCEPT ![c].socket = "connecting", ![c].init = "pending",
                                ![c].timeout = "armed"]
  /\ UNCHANGED <<toServer, toClient, got, events>>
  /\ UNCHANGED rvars

\* The transport accepts the connection of a client's socket: the socket is
\* open, the server runs onConnect, and what it sends is on its way.
Accept(c) ==
  /\ replica[c].socket = "connecting"
  /\ OpenConn(c)
  /\ replica' = [replica EXCEPT ![c].socket = "open"]
  /\ toClient' = Enqueue(Connected(c).out)
  /\ UNCHANGED <<sent, toServer, got, events>>

\* The connection ends: the server runs onClose, the client's socket is
\* closed, and the frames still on their way on this connection are lost.
Drop(c) ==
  /\ replica[c].socket = "open"
  /\ CloseConn(c)
  /\ replica' = [replica EXCEPT ![c].socket = "closed"]
  /\ toClient' = [Enqueue(Closed(c).out) EXCEPT ![c] = <<>>]
  /\ toServer' = [toServer EXCEPT ![c] = <<>>]
  /\ UNCHANGED <<sent, got, events>>

\* The server handles the next frame of a connection.
Receive(c) ==
  /\ toServer[c] # <<>>
  /\ HandleFrame(c, Head(toServer[c]))
  /\ toServer' = [toServer EXCEPT ![c] = Tail(@)]
  /\ toClient' = Enqueue(Messaged(c, Head(toServer[c])).out)
  /\ UNCHANGED <<sent, replica, got, events>>

\* The client's socket hands the next frame to the message listener.
Deliver(c) ==
  /\ toClient[c] # <<>>
  /\ replica[c].socket = "open"
  /\ LET h == onSocketMessage(replica[c], Head(toClient[c]))
     IN /\ replica' = [replica EXCEPT ![c] = h.r]
        /\ got' = [got EXCEPT ![c] = @ \cup EventNumbers(h.calls)]
  /\ toClient' = [toClient EXCEPT ![c] = Tail(@)]
  /\ UNCHANGED <<toServer, events>>
  /\ UNCHANGED rvars

\* room.onmessage = handler
SetOnmessage(c) ==
  /\ ~replica[c].onmessage
  /\ replica' = [replica EXCEPT ![c].onmessage = TRUE]
  /\ UNCHANGED <<toServer, toClient, got, events>>
  /\ UNCHANGED rvars

\* send(event), after initialize() has resolved.
ClientSend(c, event) ==
  /\ replica[c].init = "resolved"
  /\ Len(events) < MaxEvents
  /\ toServer' = [toServer EXCEPT ![c] = @ \o
                    sendToServer(replica[c], [type |-> "broadcast-event",
                                              event |-> event])]
  /\ events' = Append(events,
                 [by |-> c,
                  echo |-> IF "echo" \in DOMAIN event THEN event.echo ELSE TRUE,
                  audience |-> {d \in Ids : /\ replica[d].socket = "open"
                                            /\ replica[d].onmessage}])
  /\ UNCHANGED <<replica, toClient, got>>
  /\ UNCHANGED rvars

(***************************************************************************)
(* The rest of the client: the calls that update state, the subscriptions, *)
(* the timer and the "error" listener of initialize(), and a transport     *)
(* that hands the client any frame.                                        *)
(***************************************************************************)
VARIABLES
  notified,  \* the callbacks the last step of a client invoked, in order
  ncalls,    \* how many times updatePresence / updateRoomState were called
  handles,   \* the de-registration handles each client's subscribe calls
             \* returned, in order: [kind, cb, invoked]
  elapsed    \* milliseconds since each client's initialize() set its timer

cvars == <<notified, ncalls, handles, elapsed>>

\* setTimeout(..., 10000) in initialize().
TimeoutMs == 10000

\* The instants at which the clock is looked at.
Instants == {0, TimeoutMs \div 2, TimeoutMs - 1, TimeoutMs, TimeoutMs + 1}

MaxCalls == 2
MaxHandles == 2

\* The callbacks a program registers, and the three collections.
Callbacks == {"f"}
Kinds == {"presence", "roomState", "presenceUpdateRequest"}

\* The Set of callbacks of a collection.
SubscribersOf(r, kind) ==
  CASE kind = "presence" -> r.presenceSubscribers
    [] kind = "roomState" -> r.roomStateSubscribers
    [] kind = "presenceUpdateRequest" -> r.presenceUpdateRequestSubscribers

WithSubscribers(r, kind, set) ==
  CASE kind = "presence" -> [r EXCEPT !.presenceSubscribers = set]
    [] kind = "roomState" -> [r EXCEPT !.roomStateSubscribers = set]
    [] kind = "presenceUpdateRequest" ->
         [r EXCEPT !.presenceUpdateRequestSubscribers = set]

\* subscribePresence / subscribeRoomState / subscribePresenceUpdateRequests:
\* the callback is added to the Set.
subscribe(r, kind, cb) == WithSubscribers(r, kind, SubscribersOf(r, kind) \cup {cb})

\* The function a subscribe call returned, when invoked: the callback is
\* deleted from the Set.
unsubscribe(r, kind, cb) == WithSubscribers(r, kind, SubscribersOf(r, kind) \ {cb})

\* What a call of the client leaves behind: the object and the frames sent.
Called(r, out) == [r |-> r, out |-> out]

\* updatePresence(patch) that changes nothing locally.
updatePresenceNotOptimistic(r, patch) ==
  Called(r, sendToServer(r, [type |-> "update-presence", presence |-> patch]))

\* updatePresence(patch)
updatePresence(r, patch) ==
  LET own == IF r.clientId \in DOMAIN r.presence
             THEN r.presence[r.clientId] ELSE EmptyObj
      pr == Put(r.presence, r.clientId, deepMerge(own, patch))
  IN Called([r EXCEPT !.presence = pr],
            sendToServer(r, [type |-> "update-presence", presence |-> patch]))

\* updateRoomState(patch) with an optimistic local merge.
updateRoomStateOptimistic(r, patch) ==
  Called([r EXCEPT !.roomState = deepMerge(@, patch)],
         sendToServer(r, [type |-> "update-room-state", roomState |-> patch]))

\* updateRoomState(patch)
updateRoomState(r, patch) ==
  Called(r, sendToServer(r, [type |-> "update-room-state", roomState |-> patch]))

\* cleanup(err) that rejects the promise and leaves the socket as it is.
cleanupRejectOnly(r, err) ==
  [r EXCEPT !.init = IF @ = "pending" THEN err ELSE @]

\* cleanup(err) of initialize(): the socket is closed and dropped, and the
\* promise is rejected (which does nothing to a settled promise).
cleanup(r, err) ==
  [r EXCEPT !.socket = "null", !.init = IF @ = "pending" THEN err ELSE @]

\* The callback of the timer of initialize().
onTimeout(r) == cleanup([r EXCEPT !.timeout = "fired"], "timeout")

\* The "error" listener that initialize() attaches to the socket.
onSocketError(r) ==
  cleanup([r EXCEPT !.timeout = IF @ = "armed" THEN "cleared" ELSE @], "error")

ClientInit ==
  /\ notified = <<>>
  /\ ncalls = 0
  /\ handles = [c \in Ids |-> <<>>]
  /\ elapsed = [c \in Ids |-> 0]

\* updatePresence(patch) called on client c.
UpdatePresence(c, patch) ==
  /\ ncalls < MaxCalls
  /\ LET u == updatePresence(replica[c], patch)
     IN /\ replica' = [replica EXCEPT ![c] = u.r]
        /\ toServer' = [toServer EXCEPT ![c] = @ \o u.out]
  /\ ncalls' = ncalls + 1
  /\ notified' = <<>>
  /\ UNCHANGED <<toClient, got, events, handles, elapsed>>
  /\ UNCHANGED rvars

\* updateRoomState(patch) called on client c.
UpdateRoomState(c, patch) ==
  /\ ncalls < MaxCalls
  /\ LET u == updateRoomState(replica[c], patch)
     IN /\ replica' = [replica EXCEPT ![c] = u.r]
        /\ toServer' = [toServer EXCEPT ![c] = @ \o u.out]
  /\ ncalls' = ncalls + 1
  /\ notified' = <<>>
  /\ UNCHANGED <<toClient, got, events, handles, elapsed>>
  /\ UNCHANGED rvars

\* One of the three subscribe methods called on client c with callback cb.
Subscribe(c, kind, cb) ==
  /\ Len(handles[c]) < MaxHandles
  /\ replica' = [replica EXCEPT ![c] = subscribe(@, kind, cb)]
  /\ handles' = [handles EXCEPT ![c] =
                   Append(@, [kind |-> kind, cb |-> cb, invoked |-> FALSE])]
  /\ notified' = <<>>
  /\ UNCHANGED <<toServer, toClient, got, events, ncalls, elapsed>>
  /\ UNCHANGED rvars

\* The i-th handle of client c is invoked.
Unsubscribe(c, i) ==
  /\ i \in DOMAIN handles[c]
  /\ replica' = [replica EXCEPT ![c] =
                   unsubscribe(@, handles[c][i].kind, handles[c][i].cb)]
  /\ handles' = [handles EXCEPT ![c][i].invoked = TRUE]
  /\ notified' = <<>>
  /\ UNCHANGED <<toServer, toClient, got, events, ncalls, elapsed>>
  /\ UNCHANGED rvars

\* The frames a transport may hand to the client with id c.
InitFrame(c) ==
  Stringify([type |-> "init", clientId |-> c,
             roomState |-> One("a", Num(1)),
             presence |-> [d \in {c, "c2"} |->
                             IF d = c THEN EmptyObj ELSE One("a", Num(1))],
             peers |-> [d \in {c, "c2"} |->
                          [username |-> MetaOf("c2").username,
                           avatarUrl |-> MetaOf("c2").avatarUrl]]])

UpdateFrames(c) ==
  { Stringify([type |-> "presence-updated", clientId |-> d,
               presence |-> One("a", Obj(One("b", Num(1))))]) : d \in {c, "c2"} }
  \cup
  { Stringify([type |-> "room-state-updated",
               roomState |-> One("a", Obj(One("b", Num(1))))]),
    Stringify([type |-> "presence-update-request",
               update |-> One("a", Num(1)), fromClientId |-> "c2"]),
    Stringify([type |-> "peer-joined", clientId |-> "c2",
               username |-> MetaOf("c2").username,
               avatarUrl |-> MetaOf("c2").avatarUrl]),
    Stringify([type |-> "peer-left", clientId |-> "c2"]),
    Stringify([type |-> "event",
               data |-> [f \in {"type", "n"} |-> IF f = "type" THEN "x" ELSE 0]]) }

ServerFrames(c) == {InitFrame(c), Garbage} \cup UpdateFrames(c)

\* The socket of client c opens.
Open(c) ==
  /\ replica[c].socket = "connecting"
  /\ replica' = [replica EXCEPT ![c].socket = "open"]
  /\ notified' = <<>>
  /\ UNCHANGED <<toServer, toClient, got, events, ncalls, handles, elapsed>>
  /\ UNCHANGED rvars

\* The open socket of client c hands a frame to the "message" listener.
Inbound(c, frame) ==
  /\ replica[c].socket = "open"
  /\ LET h == onSocketMessage(replica[c], frame)
     IN /\ replica' = [replica EXCEPT ![c] = h.r]
        /\ notified' = h.calls
  /\ UNCHANGED <<toServer, toClient, got, events, ncalls, handles, elapsed>>
  /\ UNCHANGED rvars

\* The socket of client c, connecting or open, fires its "error" event.
SocketError(c) ==
  /\ replica[c].socket \in {"connecting", "open"}
  /\ replica' = [replica EXCEPT ![c] = onSocketError(@)]
  /\ notified' = <<>>
  /\ UNCHANGED <<toServer, toClient, got, events, ncalls, handles, elapsed>>
  /\ UNCHANGED rvars

\* The transport closes the socket of client c.
SocketClose(c) ==
  /\ replica[c].socket \in {"connecting", "open"}
  /\ replica' = [replica EXCEPT ![c].socket = "closed"]
  /\ notified' = <<>>
  /\ UNCHANGED <<toServer, toClient, got, events, ncalls, handles, elapsed>>
  /\ UNCHANGED rvars

\* Time passes while the timer of client c is set.
Tick(c) ==
  /\ replica[c].timeout = "armed"
  /\ \E t \in Instants : t > elapsed[c] /\ elapsed' = [elapsed EXCEPT ![c] = t]
  /\ UNCHANGED <<replica, toServer, toClient, got, events, notified, ncalls, handles>>
  /\ UNCHANGED rvars

\* A timer of client c that may fire before its delay has passed.
TimeoutEarly(c) ==
  /\ replica[c].timeout = "armed"
  /\ replica' = [replica EXCEPT ![c] = onTimeout(@)]
  /\ notified' = <<>>
  /\ UNCHANGED <<toServer, toClient, got, events, ncalls, handles, elapsed>>
  /\ UNCHANGED rvars

\* The timer of client c, not cleared, fires once its delay has passed.
Timeout(c) ==
  /\ replica[c].timeout = "armed"
  /\ elapsed[c] >= TimeoutMs
  /\ replica' = [replica EXCEPT ![c] = onTimeout(@)]
  /\ notified' = <<>>
  /\ UNCHANGED <<toServer, toClient, got, events, ncalls, handles, elapsed>>
  /\ UNCHANGED rvars

VARIABLES mt, ms, mr, mpc

mvars == <<mt, ms, mr, mpc>>

MergeIdle ==
  /\ mt = EmptyObj
  /\ ms = EmptyObj
  /\ mr = EmptyObj
  /\ mpc = "idle"

MergeInit ==
  /\ mt \in ObjectsOver(Values2)
  /\ ms \in ObjectsOver(Values2)
  /\ mr = EmptyObj
  /\ mpc = "call"
  /\ RelayInit
  /\ NetInit
  /\ ClientInit

MergeCall ==
  /\ mpc = "call"
  /\ mr' = deepMerge(mt, ms)
  /\ mpc' = "done"
  /\ UNCHANGED <<mt, ms>>
  /\ UNCHANGED <<rvars, nvars, cvars>>

vars == <<rvars, nvars, cvars, mvars>>

SpecMerge == MergeInit /\ [][MergeCall]_vars

\* The server alone: the transport opens and closes connections and hands
\* it frames.
RelayAloneInit == RelayInit /\ NetInit /\ ClientInit /\ MergeIdle

RelayNext ==
  \/ \E c \in Ids : Connect(c) /\ UNCHANGED <<nvars, cvars, mvars>>
  \/ \E c \in Ids, frame \in Frames : Message(c, frame) /\ UNCHANGED <<nvars, cvars, mvars>>
  \/ \E c \in Ids : Close(c) /\ UNCHANGED <<nvars, cvars, mvars>>

SpecRelay == RelayAloneInit /\ [][RelayNext]_vars

\* Server and clients, the clients broadcasting events.
EventsInit == RelayInit /\ NetInit /\ ClientInit /\ MergeIdle

EventsNext ==
  \/ \E c \in Clients : Initialize(c) /\ UNCHANGED <<cvars, mvars>>
  \/ \E c \in Clients : Accept(c) /\ UNCHANGED <<cvars, mvars>>
  \/ \E c \in Clients : Drop(c) /\ UNCHANGED <<cvars, mvars>>
  \/ \E c \in Clients : Receive(c) /\ UNCHANGED <<cvars, mvars>>
  \/ \E c \in Clients : Deliver(c) /\ UNCHANGED <<cvars, mvars>>
  \/ \E c \in Clients : SetOnmessage(c) /\ UNCHANGED <<cvars, mvars>>
  \/ \E c \in Clients, e \in ClientEvents(Len(events)) : ClientSend(c, e) /\ UNCHANGED <<cvars, mvars>>

SpecEvents == EventsInit /\ [][EventsNext]_vars

\* The transport delivers: a frame on its way is handed over in the end,
\* unless its connection ends first.
Delivery ==
  \A c \in Clients : /\ WF_vars(Receive(c) /\ UNCHANGED <<cvars, mvars>>)
                     /\ WF_vars(Deliver(c) /\ UNCHANGED <<cvars, mvars>>)

\* The same with fewer calls of send.
MaxFairEvents == 1

EventsFairNext ==
  \/ \E c \in Clients : Initialize(c) /\ UNCHANGED <<cvars, mvars>>
  \/ \E c \in Clients : Accept(c) /\ UNCHANGED <<cvars, mvars>>
  \/ \E c \in Clients : Drop(c) /\ UNCHANGED <<cvars, mvars>>
  \/ \E c \in Clients : Receive(c) /\ UNCHANGED <<cvars, mvars>>
  \/ \E c \in Clients : Deliver(c) /\ UNCHANGED <<cvars, mvars>>
  \/ \E c \in Clients : SetOnmessage(c) /\ UNCHANGED <<cvars, mvars>>
  \/ \E c \in Clients, e \in ClientEvents(Len(events)) :
        Len(events) < MaxFairEvents /\ ClientSend(c, e) /\ UNCHANGED <<cvars, mvars>>

SpecEventsFair == EventsInit /\ [][EventsFairNext]_vars /\ Delivery

\* Server and clients, the clients updating presence and room state with
\* patches that set a number, set a nested object, or delete.
SyncPatches == { One("a", Num(1)), One("a", Obj(One("b", Num(1)))), One("a", Null) }

SyncNext ==
  \/ \E c \in Clients : Initialize(c) /\ UNCHANGED <<cvars, mvars>>
  \/ \E c \in Clients : Accept(c) /\ UNCHANGED <<cvars, mvars>>
  \/ \E c \in Clients : Drop(c) /\ UNCHANGED <<cvars, mvars>>
  \/ \E c \in Clients : Receive(c) /\ UNCHANGED <<cvars, mvars>>
  \/ \E c \in Clients : Deliver(c) /\ UNCHANGED <<cvars, mvars>>
  \/ \E c \in Clients, p \in SyncPatches : UpdatePresence(c, p) /\ UNCHANGED mvars
  \/ \E c \in Clients, p \in SyncPatches : UpdateRoomState(c, p) /\ UNCHANGED mvars

SpecSync == EventsInit /\ [][SyncNext]_vars

\* One client and a transport that opens and closes its socket, fires its
\* "error" event and hands it any frame at any time, while the program
\* calls the client's methods.
Alone == {"c1"}

LocalPatches == { One("b", Num(1)) }

ReplicaNext ==
  \/ \E c \in Alone : Initialize(c) /\ notified' = <<>>
                        /\ UNCHANGED <<ncalls, handles, elapsed, mvars>>
  \/ \E c \in Alone : Open(c) /\ UNCHANGED mvars
  \/ \E c \in Alone : \E frame \in ServerFrames(c) : Inbound(c, frame) /\ UNCHANGED mvars
  \/ \E c \in Alone : SocketError(c) /\ UNCHANGED mvars
  \/ \E c \in Alone : SocketClose(c) /\ UNCHANGED mvars
  \/ \E c \in Alone, p \in LocalPatches : UpdatePresence(c, p) /\ UNCHANGED mvars
  \/ \E c \in Alone, p \in LocalPatches : UpdateRoomState(c, p) /\ UNCHANGED mvars
  \/ \E c \in Alone, kind \in Kinds, cb \in Callbacks :
        Subscribe(c, kind, cb) /\ UNCHANGED mvars
  \/ \E c \in Alone : SetOnmessage(c) /\ notified' = <<>>
                        /\ UNCHANGED <<ncalls, handles, elapsed, mvars>>

SpecReplica == EventsInit /\ [][ReplicaNext]_vars

\* The same client and transport with the clock: initialize() and how its
\* promise settles.
InitNext ==
  \/ \E c \in Alone : Initialize(c) /\ notified' = <<>>
                        /\ UNCHANGED <<ncalls, handles, elapsed, mvars>>
  \/ \E c \in Alone : Open(c) /\ UNCHANGED mvars
  \/ \E c \in Alone : \E frame \in ServerFrames(c) : Inbound(c, frame) /\ UNCHANGED mvars
  \/ \E c \in Alone : SocketError(c) /\ UNCHANGED mvars
  \/ \E c \in Alone : SocketClose(c) /\ UNCHANGED mvars
  \/ \E c \in Alone : Tick(c) /\ UNCHANGED mvars
  \/ \E c \in Alone : Timeout(c) /\ UNCHANGED mvars

SpecInit == EventsInit /\ [][InitNext]_vars

\* Time passes, and a timer whose delay has passed fires.
Clock ==
  \A c \in Alone : /\ WF_vars(Tick(c) /\ UNCHANGED mvars)
                   /\ WF_vars(Timeout(c) /\ UNCHANGED mvars)

SpecInitFair == EventsInit /\ [][InitNext]_vars /\ Clock

\* The same client and transport, the program subscribing and invoking the
\* handles it was given.
SubsNext ==
  \/ \E c \in Alone : Initialize(c) /\ notified' = <<>>
                        /\ UNCHANGED <<ncalls, handles, elapsed, mvars>>
  \/ \E c \in Alone : Open(c) /\ UNCHANGED mvars
  \/ \E c \in Alone : \E frame \in ServerFrames(c) : Inbound(c, frame) /\ UNCHANGED mvars
  \/ \E c \in Alone, kind \in Kinds, cb \in Callbacks :
        Subscribe(c, kind, cb) /\ UNCHANGED mvars
  \/ \E c \in Alone, i \in 1..MaxHandles : Unsubscribe(c, i) /\ UNCHANGED mvars

SpecSubs == EventsInit /\ [][SubsNext]_vars

\* The callback a client's program registers for presence.
CallbackOf(c) == "on-" \o c

\* Deliver, with the callbacks the listener invoked kept in notified.
DeliverNotify(c) ==
  /\ Deliver(c)
  /\ notified' = onSocketMessage(replica[c], Head(toClient[c])).calls
  /\ UNCHANGED <<ncalls, handles, elapsed>>

\* Server and clients, the clients joining and leaving, updating their
\* presence, subscribing to presence and setting onmessage.
PeersNext ==
  \/ \E c \in Clients : Initialize(c) /\ UNCHANGED <<cvars, mvars>>
  \/ \E c \in Clients : Accept(c) /\ UNCHANGED <<cvars, mvars>>
  \/ \E c \in Clients : Drop(c) /\ UNCHANGED <<cvars, mvars>>
  \/ \E c \in Clients : Receive(c) /\ UNCHANGED <<cvars, mvars>>
  \/ \E c \in Clients : DeliverNotify(c) /\ UNCHANGED mvars
  \/ \E c \in Clients, p \in LocalPatches : UpdatePresence(c, p) /\ UNCHANGED mvars
  \/ \E c \in Clients : Subscribe(c, "presence", CallbackOf(c)) /\ UNCHANGED mvars
  \/ \E c \in Clients : SetOnmessage(c) /\ UNCHANGED <<cvars, mvars>>

SpecPeers == EventsInit /\ [][PeersNext]_vars

\* The same without calls of updatePresence, so that the clients send
\* nothing, and with the frames on their way to an open socket handed to its
\* listener in the end.
JoinLeaveNext ==
  \/ \E c \in Clients : Initialize(c) /\ UNCHANGED <<cvars, mvars>>
  \/ \E c \in Clients : Accept(c) /\ UNCHANGED <<cvars, mvars>>
  \/ \E c \in Clients : Drop(c) /\ UNCHANGED <<cvars, mvars>>
  \/ \E c \in Clients : DeliverNotify(c) /\ UNCHANGED mvars
  \/ \E c \in Clients : Subscribe(c, "presence", CallbackOf(c)) /\ UNCHANGED mvars

InOrderDelivery == \A c \in Clients : WF_vars(DeliverNotify(c) /\ UNCHANGED mvars)

SpecJoinLeave == EventsInit /\ [][JoinLeaveNext]_vars /\ InOrderDelivery

\* Frames that are not messages of the protocol: text that is not JSON,
\* messages without their payload, and a message of no known kind.
BadFrames ==
  { Garbage,
    Stringify([type |-> "update-presence"]),
    Stringify([type |-> "update-room-state"]),
    Stringify([type |-> "broadcast-event"]),
    Stringify([type |-> "bogus"]) }

BadServerFrames ==
  { Garbage,
    Stringify([type |-> "room-state-updated"]),
    Stringify([type |-> "bogus"]) }

\* The server with two connections, and beside it one client, each with a
\* transport that hands it such frames among good ones.
MalformedNext ==
  \/ \E c \in Clients : Connect(c) /\ UNCHANGED <<nvars, cvars, mvars>>
  \/ \E c \in Clients, frame \in BadFrames \cup {Stringify(m) : m \in
          {[type |-> "update-room-state", roomState |-> p] : p \in LocalPatches}
          \cup {[type |-> "update-presence", presence |-> p] : p \in LocalPatches}} :
        Message(c, frame) /\ UNCHANGED <<nvars, cvars, mvars>>
  \/ \E c \in Clients : Close(c) /\ UNCHANGED <<nvars, cvars, mvars>>
  \/ \E c \in Alone : Initialize(c) /\ notified' = <<>>
                        /\ UNCHANGED <<ncalls, handles, elapsed, mvars>>
  \/ \E c \in Alone : Open(c) /\ UNCHANGED mvars
  \/ \E c \in Alone : \E frame \in BadServerFrames \cup {InitFrame(c)} :
        Inbound(c, frame) /\ UNCHANGED mvars

SpecMalformed == EventsInit /\ [][MalformedNext]_vars

(***************************************************************************)
(* Properties.                                                             *)
(***************************************************************************)

\* Whether an object holds null at any key at any depth.
RECURSIVE HasNull(_)
HasNull(obj) ==
  \E key \in DOMAIN obj :
     \/ obj[key] = Null
     \/ obj[key].k = "object" /\ HasNull(obj[key].m)

\* The left fold of deepMerge over a sequence of patches, from the empty object.
RECURSIVE FoldMerge(_)
FoldMerge(seq) ==
  IF seq = <<>> THEN EmptyObj
  ELSE deepMerge(FoldMerge(SubSeq(seq, 1, Len(seq) - 1)), seq[Len(seq)])

\* The frames of the four kinds of client message.
UpdatePresenceFrame(p) == Stringify([type |-> "update-presence", presence |-> p])
UpdateRoomStateFrame(p) == Stringify([type |-> "update-room-state", roomState |-> p])
RequestFrame(t, u) ==
  Stringify([type |-> "request-presence-update", targetClientId |-> t, update |-> u])
EventFrame(e) == Stringify([type |-> "broadcast-event", event |-> e])

\* C1: in the Relay, the presence entry of a client that is and stays
\* connected changes only in a step that handles an update-presence message
\* sent by that client (the step that extends its history of patches); no
\* message of another connection changes it.
C1_PresenceOwnedBySender ==
  [][\A c \in Ids :
       (/\ c \in DOMAIN presence
        /\ c \in DOMAIN presence'
        /\ presence'[c] # presence[c])
       => (\E p \in Patches :
             /\ Message(c, UpdatePresenceFrame(p))
             /\ hist'[c] = Append(hist[c], p))]_vars

\* C1 witness: a request-presence-update of d aimed at another client c was
\* handled while c held a non-empty presence.
C1_Witness ==
  \E c \in Ids, d \in Ids :
     /\ c # d
     /\ c \in DOMAIN presence
     /\ presence[c] # EmptyObj
     /\ Len(sent) = 1
     /\ sent[1].msg.type = "presence-update-request"
     /\ sent[1].to = {c}
     /\ sent[1].msg.fromClientId = d

\* C2: neither roomState nor any presence entry of the Relay holds null at
\* any key at any depth.
C2_NoNullStored ==
  /\ ~HasNull(roomState)
  /\ \A c \in DOMAIN presence : ~HasNull(presence[c])

\* C3: the presence entry of a connected client is the left fold of merge,
\* from the empty object, over the update-presence patches the Relay handled
\* from it, in arrival order.
C3_PresenceIsFold ==
  \A c \in DOMAIN presence : presence[c] = FoldMerge(hist[c])

\* C3 witness: two patches were handled whose arrival in the other order
\* would have given a different presence.
C3_Witness ==
  \E c \in DOMAIN presence :
     /\ Len(hist[c]) = 2
     /\ presence[c] = FoldMerge(hist[c])
     /\ presence[c] # FoldMerge(<<hist[c][2], hist[c][1]>>)
\* Whether a value is a mapping: an object, not null and not an array.
IsMapping(v) == v.k = "object"

\* The reference result of a merge: keys of target that source lacks keep
\* their value; a key of source is absent when its value is null, holds the
\* merge of the two values when both are mappings, and holds the value of
\* source otherwise.
RECURSIVE RefMerge(_, _)
RefMerge(target, source) ==
  LET deleted == {key \in DOMAIN source : source[key] = Null}
      written == DOMAIN source \ deleted
      kept == DOMAIN target \ DOMAIN source
      both(key) == /\ key \in DOMAIN target
                   /\ IsMapping(target[key])
                   /\ IsMapping(source[key])
  IN [key \in kept \cup written |->
        CASE key \in kept -> target[key]
          [] key \in written /\ both(key) ->
               Obj(RefMerge(target[key].m, source[key].m))
          [] OTHER -> source[key]]

\* C4: deepMerge(target, source) is the reference result, for all objects of
\* depth at most two over two keys; and the four examples of the
\* specification hold.
C4_MergeMatchesReference ==
  /\ mpc = "done" => mr = RefMerge(mt, ms)
  /\ deepMerge(EmptyObj, One("a", Num(1))) = One("a", Num(1))
  /\ deepMerge(One("a", Num(1)), One("a", Null)) = EmptyObj
  /\ deepMerge(One("a", Obj(One("b", Num(1)))), One("a", Obj(One("c", Num(2)))))
       = One("a", Obj([x \in {"b", "c"} |-> IF x = "b" THEN Num(1) ELSE Num(2)]))
  /\ deepMerge(One("a", Obj(One("b", Num(1)))), One("a", Null)) = EmptyObj

\* C4 witness: two nested objects were merged key by key.
C4_Witness ==
  /\ mpc = "done"
  /\ mt = One("a", Obj(One("b", Num(1))))
  /\ ms = One("a", Obj(One("a", Arr)))
  /\ mr = One("a", Obj([x \in {"a", "b"} |-> IF x = "a" THEN Arr ELSE Num(1)]))

\* C7: the event message the Relay sends for a broadcast-event of sender c
\* carries c as clientId and the registered username of c as username,
\* whatever fields the event has.
C7_EventNamesSender ==
  [][\A c \in Ids, e \in EventsOf(0) :
       Message(c, EventFrame(e))
       => /\ Len(sent') = 1
          /\ sent'[1].msg.type = "event"
          /\ sent'[1].msg.data.clientId = c
          /\ sent'[1].msg.data.username = peers[c].username]_vars

\* C8: a connection that has closed has no entry in peers and none in
\* presence, as before it connected; and the connect and the close of a
\* connection leave the peers and presence entries of every other id as
\* they were.
C8_ConnectCloseRestores ==
  /\ [](\A c \in Ids : conn[c] # "open"
                        => c \notin DOMAIN peers /\ c \notin DOMAIN presence)
  /\ [][\A c \in Ids :
          (Connect(c) \/ Close(c))
          => \A d \in Ids \ {c} :
               /\ (d \in DOMAIN peers) = (d \in DOMAIN peers')
               /\ (d \in DOMAIN presence) = (d \in DOMAIN presence')
               /\ d \in DOMAIN peers => peers'[d] = peers[d]
               /\ d \in DOMAIN presence => presence'[d] = presence[d]]_vars

\* C8 witness: a connection that had merged a patch into its presence has
\* closed, while another connection still holds a non-empty presence.
C8_Witness ==
  \E c \in Ids, d \in Ids :
     /\ c # d
     /\ conn[c] = "closed"
     /\ roomState # EmptyObj
     /\ d \in DOMAIN presence
     /\ presence[d] # EmptyObj
     /\ Len(sent) = 1
     /\ sent[1].msg = [type |-> "peer-left", clientId |-> c]

\* C9: handling request-presence-update{targetClientId: t, update: u} from c
\* sends exactly one message, presence-update-request{u, fromClientId: c}, to
\* t alone when t is connected, and sends nothing to anyone otherwise; it
\* raises no error.
C9_RequestIsUnicast ==
  [][\A c \in Ids, t \in Ids \cup {UnknownId}, u \in Updates :
       Message(c, RequestFrame(t, u))
       => /\ ~threw'
          /\ IF t \in Connections
             THEN sent' = << [to |-> {t},
                              msg |-> [type |-> "presence-update-request",
                                       update |-> u, fromClientId |-> c]] >>
             ELSE \A i \in DOMAIN sent' : sent'[i].to = {}]_vars

\* C9 witness: a connection has closed, another is open, and the last
\* handler sent nothing: of the frames of this specification only a request
\* aimed at an id that is not connected does that.
C9_Witness ==
  /\ \E c \in Ids : conn[c] = "closed"
  /\ \E c \in Ids : conn[c] = "open"
  /\ sent = <<>>
  /\ ~threw
\* The frame of the event message the server sends for event n.
IsEventFrame(frame, n) ==
  /\ frame.text = "json"
  /\ frame.value.type = "event"
  /\ frame.value.data.n = n

\* A frame with a broadcast-event whose echo is false.
IsNoEchoEvent(frame) ==
  /\ frame.text = "json"
  /\ frame.value.type = "broadcast-event"
  /\ "echo" \in DOMAIN frame.value.event
  /\ ~frame.value.event.echo

\* C5: when the Relay handles a broadcast-event with echo false from
\* connected sender c, the event message is put on its way to every
\* connection but c and nothing is sent to c; and no client's onmessage is
\* ever given an event that the client itself sent with echo false.
C5_NoEchoToSender ==
  /\ [](\A c \in Ids : \A n \in got[c] :
          events[n + 1].by = c => events[n + 1].echo)
  /\ [][\A c \in Clients :
          (/\ toServer[c] # <<>>
           /\ IsNoEchoEvent(Head(toServer[c]))
           /\ Receive(c))
          => /\ toClient'[c] = toClient[c]
             /\ \A d \in Connections \ {c} :
                  /\ Len(toClient'[d]) = Len(toClient[d]) + 1
                  /\ IsEventFrame(toClient'[d][Len(toClient'[d])],
                                  Head(toServer[c]).value.event.n)]_vars

\* C5 witness: an event sent with echo false by a client that has an
\* onmessage handler and is still connected has reached the onmessage of the
\* other client.
C5_Witness ==
  \E n \in 1..Len(events) :
     /\ ~events[n].echo
     /\ events[n].by \in events[n].audience
     /\ replica[events[n].by].socket = "open"
     /\ toClient[events[n].by] = <<>>
     /\ \E d \in Clients \ {events[n].by} : (n - 1) \in got[d]

\* Event number n was sent with echo true or without echo by a connected
\* client with a handler, client d was connected with a handler then, both
\* are still connected, and the onmessage of d has not been given the event.
Awaited(n, d) ==
  /\ Len(events) >= n
  /\ events[n].echo
  /\ events[n].by \in events[n].audience
  /\ d \in events[n].audience
  /\ replica[d].socket = "open"
  /\ replica[events[n].by].socket = "open"
  /\ (n - 1) \notin got[d]

\* C6: an event sent with echo true or without echo by a connected client
\* reaches, under fair delivery, the onmessage of every client that was
\* connected with a handler set when send was called, the sender included,
\* as long as that client and the sender stay connected: whenever some
\* handler still awaits some event, a state follows in which none does.
C6_EchoReachesHandlers ==
  (\E n \in 1..(MaxEvents + 1), d \in Clients : Awaited(n, d))
    ~> (\A n \in 1..(MaxEvents + 1), d \in Clients : ~Awaited(n, d))

\* C6 witness: the sender's own onmessage was given the event it sent
\* without an echo field.
C6_Witness ==
  \E n \in 1..Len(events) :
     /\ events[n].echo
     /\ events[n].by \in events[n].audience
     /\ (n - 1) \in got[events[n].by]
     /\ \E d \in Clients \ {events[n].by} : (n - 1) \in got[d]

\* C10: the first message the Relay ever sends to a connection is init; the
\* step that connects c sends c exactly that one message, before the
\* broadcasts of the step, none of which goes to c; and the init carries c,
\* the roomState, the presence of every connected client with the empty
\* object for c, and the peers registry with c in it, as they are after the
\* handler.
C10_InitFirst ==
  /\ [](\A c \in Ids : first[c] = IF conn[c] = "none" THEN "none" ELSE "init")
  /\ [][\A c \in Ids :
          Connect(c)
          => /\ Len(sent') >= 1
             /\ sent'[1] = [to |-> {c},
                            msg |-> [type |-> "init", clientId |-> c,
                                     roomState |-> roomState',
                                     presence |-> presence',
                                     peers |-> peers']]
             /\ roomState' = roomState
             /\ DOMAIN presence' = Connections \cup {c}
             /\ DOMAIN peers' = Connections \cup {c}
             /\ presence'[c] = EmptyObj
             /\ \A d \in Connections : presence'[d] = presence[d]
             /\ \A i \in 2..Len(sent') : c \notin sent'[i].to]_vars

\* C10 witness: a connection joined a room that already had a room state and
\* a connected client with a non-empty presence.
C10_Witness ==
  \E c \in Ids, d \in Ids :
     /\ c # d
     /\ Len(sent) = 3
     /\ sent[1].to = {c}
     /\ sent[1].msg.type = "init"
     /\ sent[1].msg.roomState # EmptyObj
     /\ d \in DOMAIN sent[1].msg.presence
     /\ sent[1].msg.presence[d] # EmptyObj
     /\ d \in sent[2].to

\* Whether a frame is on its way in either direction.
InFlight == \E c \in Ids : toServer[c] # <<>> \/ toClient[c] # <<>>

\* A client whose initialize() has resolved and whose socket is open.
Settled(c) == replica[c].init = "resolved" /\ replica[c].socket = "open"

\* C11: whenever no frame is on its way, the roomState of every client that
\* is initialized and connected equals the roomState of the server.
C11_RoomStateConverges ==
  ~InFlight => \A c \in Clients : Settled(c) => replica[c].roomState = roomState

\* C11 witness: no frame is on its way, both clients are initialized and
\* connected, and both hold the server's roomState, which is not empty.
C11_Witness ==
  /\ ~InFlight
  /\ \A c \in Clients : Settled(c) /\ replica[c].roomState = roomState
  /\ roomState # EmptyObj

\* C12: whenever no frame is on its way, the presence of every client that
\* is initialized and connected equals the presence of the server, its own
\* entry included.
C12_PresenceConverges ==
  ~InFlight => \A c \in Clients : Settled(c) => replica[c].presence = presence

\* C12 witness: no frame is on its way, both clients are initialized and
\* connected, each has changed its presence, and both hold the server's
\* presence.
C12_Witness ==
  /\ ~InFlight
  /\ \A c \in Clients : /\ Settled(c)
                        /\ replica[c].presence = presence
                        /\ hist[c] # <<>>

\* The three mirrors of a client.
Mirror(r) == <<r.presence, r.roomState, r.peers>>

\* The message of a frame, when it is one.
TypeOf(frame) == IF Parse(frame).ok THEN Parse(frame).value.type ELSE "none"

\* C13: a call of updateRoomState leaves the client's roomState, presence and
\* peers as they were and invokes no callback; and the client's roomState
\* changes only in a step that hands it an init or a room-state-updated
\* message.
C13_RoomStateNotOptimistic ==
  [][\A c \in Alone :
       /\ (\E p \in LocalPatches : UpdateRoomState(c, p))
            => Mirror(replica'[c]) = Mirror(replica[c]) /\ notified' = <<>>
       /\ replica'[c].roomState # replica[c].roomState
            => \E frame \in ServerFrames(c) :
                  /\ Inbound(c, frame)
                  /\ TypeOf(frame) \in {"init", "room-state-updated"}]_vars

\* C13 witness: updateRoomState was called on an initialized client with an
\* open socket and a room-state subscriber, its frame is on its way, and the
\* client's roomState is still the one init gave it.
C13_Witness ==
  \E c \in Alone, p \in LocalPatches :
     /\ Settled(c)
     /\ toServer[c] = << Stringify([type |-> "update-room-state", roomState |-> p]) >>
     /\ replica[c].roomState = One("a", Num(1))
     /\ replica[c].roomStateSubscribers # {}
     /\ notified = <<>>

\* C14: every call of updatePresence(patch) sets the client's own presence
\* entry to the merge of the previous entry (or the empty object) with the
\* patch and sends exactly one update-presence message with that patch.
C14_UpdatePresenceSends ==
  [][\A c \in Alone, p \in LocalPatches :
       UpdatePresence(c, p)
       => LET r == replica[c]
              own == IF r.clientId \in DOMAIN r.presence
                     THEN r.presence[r.clientId] ELSE EmptyObj
          IN /\ replica'[c].presence[r.clientId] = deepMerge(own, p)
             /\ toServer'[c] = Append(toServer[c],
                    Stringify([type |-> "update-presence", presence |-> p]))]_vars

\* C15: when a client handles presence-updated{clientId: d, presence: p}, its
\* presence[d] becomes p, its entries of other ids stay as they were, and
\* its presence subscribers are each invoked once with the presence mapping
\* that holds the new value.
C15_PresenceUpdatedOverwrites ==
  [][\A c \in Alone :
       \A frame \in {f \in UpdateFrames(c) : TypeOf(f) = "presence-updated"} :
          Inbound(c, frame)
          => LET msg == Parse(frame).value
                 old == replica[c].presence
                 new == replica'[c].presence
             IN /\ DOMAIN new = DOMAIN old \cup {msg.clientId}
                /\ new[msg.clientId] = msg.presence
                /\ \A d \in DOMAIN old \ {msg.clientId} : new[d] = old[d]
                /\ notified' = IF replica[c].presenceSubscribers = {} THEN <<>>
                               ELSE << [cb |-> "presence",
                                        to |-> replica[c].presenceSubscribers,
                                        args |-> <<new>>] >>]_vars

\* C15 witness: the client's own entry, changed by updatePresence with the
\* update-presence frame still on its way, has been overwritten by a
\* presence-updated for its own id, and its presence subscriber was invoked.
C15_Witness ==
  \E c \in Alone :
     /\ Settled(c)
     /\ toServer[c] # <<>>
     /\ TypeOf(Head(toServer[c])) = "update-presence"
     /\ c \in DOMAIN replica[c].presence
     /\ replica[c].presence[c] = One("a", Obj(One("b", Num(1))))
     /\ Len(notified) = 1
     /\ notified[1].cb = "presence"
     /\ notified[1].args = << replica[c].presence >>

\* C16: a client that is handed a message other than init while its
\* initialize() is pending keeps its presence, roomState and peers and
\* invokes no callback.
C16_IgnoredBeforeInit ==
  [][\A c \in Alone :
       (/\ replica[c].init = "pending"
        /\ \E frame \in UpdateFrames(c) : Inbound(c, frame))
       => Mirror(replica'[c]) = Mirror(replica[c]) /\ notified' = <<>>]_vars

\* C17: a pending initialize() is resolved only by the step that hands the
\* client init, is rejected with the error only by the step that fires the
\* socket's "error" event, and is rejected with the timeout only when at
\* least TimeoutMs have elapsed; a settled initialize() stays as it settled,
\* so the timer never rejects after init; and a pending initialize() is
\* settled in the end, by the timeout if by nothing else.
C17_TimeoutOnlyAfterDeadline ==
  /\ [](\A c \in Alone : replica[c].init = "timeout" => elapsed[c] >= TimeoutMs)
  /\ [][\A c \in Alone :
          /\ (replica[c].init = "pending" /\ replica'[c].init = "resolved")
               => Inbound(c, InitFrame(c))
          /\ (replica[c].init = "pending" /\ replica'[c].init = "error")
               => SocketError(c)
          /\ (replica[c].init = "pending" /\ replica'[c].init = "timeout")
               => elapsed[c] >= TimeoutMs /\ Timeout(c)
          /\ replica[c].init \in {"resolved", "timeout", "error"}
               => replica'[c].init = replica[c].init]_vars
  /\ \A c \in Alone : (replica[c].init = "pending") ~> (replica[c].init # "pending")

\* C17 witness: initialize() was rejected with the timeout, the timer having
\* fired exactly when its delay had passed, on a socket that had opened and
\* was handed messages other than init.
C17_Witness ==
  \E c \in Alone :
     /\ replica[c].init = "timeout"
     /\ replica[c].timeout = "fired"
     /\ elapsed[c] = TimeoutMs
     /\ replica[c].peers # NewReplica.peers

\* A client whose initialize() was rejected.
Failed(c) == replica[c].init \in {"timeout", "error"}

C19_StaysConnected ==
  [][\A c \in Alone :
       (replica[c].init = "resolved" /\ replica[c].socket = "open")
       => replica'[c].socket = "open" \/ SocketClose(c)]_vars

\* The callbacks a message makes the client invoke from collection kind.
RECURSIVE InvokedOf(_, _)
InvokedOf(calls, kind) ==
  IF calls = <<>> THEN <<>>
  ELSE (IF Head(calls).cb = kind THEN << Head(calls).to >> ELSE <<>>)
       \o InvokedOf(Tail(calls), kind)

\* The collection a message is dispatched to, if any.
KindOf(frame) ==
  CASE TypeOf(frame) \in {"presence-updated", "peer-left"} -> {"presence"}
    [] TypeOf(frame) = "room-state-updated" -> {"roomState"}
    [] TypeOf(frame) = "presence-update-request" -> {"presenceUpdateRequest"}
    [] OTHER -> {}

\* C20: a message invokes each callback registered in its collection once,
\* however often it was registered, and no callback of another collection;
\* invoking a handle leaves its callback unregistered; invoking a handle
\* that was invoked before changes nothing; and subscribing or invoking a
\* handle leaves the other two collections as they were.
C20_HandlesAreIndependent ==
  [][\A c \in Alone :
       /\ \A frame \in UpdateFrames(c) :
             Inbound(c, frame)
             => \A kind \in Kinds :
                   InvokedOf(notified', kind) =
                     IF kind \in KindOf(frame) /\ SubscribersOf(replica[c], kind) # {}
                     THEN << SubscribersOf(replica[c], kind) >> ELSE <<>>
       /\ \A i \in DOMAIN handles[c] :
             Unsubscribe(c, i)
             => /\ handles[c][i].cb \notin
                     SubscribersOf(replica'[c], handles[c][i].kind)
                /\ handles[c][i].invoked => replica'[c] = replica[c]
                /\ \A kind \in Kinds \ {handles[c][i].kind} :
                      SubscribersOf(replica'[c], kind) = SubscribersOf(replica[c], kind)
       /\ \A kind \in Kinds, cb \in Callbacks :
             Subscribe(c, kind, cb)
             => /\ SubscribersOf(replica'[c], kind) =
                     SubscribersOf(replica[c], kind) \cup {cb}
                /\ \A other \in Kinds \ {kind} :
                      SubscribersOf(replica'[c], other) = SubscribersOf(replica[c], other)]_vars

\* C21: the server handling a frame that is not JSON, a message without its
\* payload or a message of no known kind leaves peers, presence and
\* roomState as they were, sends nothing and raises no error; and a client
\* handed such a frame keeps its presence, roomState and peers and invokes
\* no callback.
C21_MalformedDropped ==
  [][/\ \A c \in Clients, frame \in BadFrames :
          Message(c, frame)
          => /\ peers' = peers /\ presence' = presence /\ roomState' = roomState
             /\ sent' = <<>>
             /\ ~threw'
     /\ \A c \in Alone, frame \in BadServerFrames :
          Inbound(c, frame)
          => Mirror(replica'[c]) = Mirror(replica[c]) /\ notified' = <<>>]_vars

\* The frames put on the way to client d in a step.
NewFrames(d) ==
  IF Len(toClient'[d]) > Len(toClient[d])
  THEN SubSeq(toClient'[d], Len(toClient[d]) + 1, Len(toClient'[d]))
  ELSE <<>>

\* The elements of a sequence.
Range(seq) == {seq[i] : i \in DOMAIN seq}

PeerLeftFrame(x) == Stringify([type |-> "peer-left", clientId |-> x])

\* Whether the last step invoked the presence subscribers of client d.
NotifiedPresence(d) ==
  \E i \in DOMAIN notified :
     notified[i].cb = "presence" /\ CallbackOf(d) \in notified[i].to

\* C25: the step that closes connection x puts peer-left{x} on the way to
\* every remaining connection; no step at or after it puts a
\* presence-updated for x on the way to anyone; a client that handles
\* peer-left{x} ends without x in peers and presence, having invoked
\* onmessage with the disconnected event that carries x's last-known
\* username and then its presence subscribers; and a connected client with
\* no peer-left{x} still on its way holds no entry for a closed x.
C25_PeerLeftRemoves ==
  /\ [](\A d \in Clients : \A x \in Clients \ {d} :
          (/\ conn[x] = "closed"
           /\ replica[d].socket = "open"
           /\ PeerLeftFrame(x) \notin Range(toClient[d]))
          => /\ x \notin DOMAIN replica[d].peers
             /\ x \notin DOMAIN replica[d].presence)
  /\ [][\A x \in Clients :
          /\ (conn[x] = "open" /\ conn'[x] = "closed")
               => \A d \in Connections \ {x} : NewFrames(d) = << PeerLeftFrame(x) >>
          /\ conn'[x] = "closed"
               => \A d \in Clients : \A i \in DOMAIN NewFrames(d) :
                     ~(/\ TypeOf(NewFrames(d)[i]) = "presence-updated"
                       /\ NewFrames(d)[i].value.clientId = x)
          /\ \A d \in Clients \ {x} :
               (DeliverNotify(d) /\ Head(toClient[d]) = PeerLeftFrame(x))
               => /\ x \notin DOMAIN replica'[d].peers
                  /\ x \notin DOMAIN replica'[d].presence
                  /\ notified' =
                       CallOnmessage(replica[d],
                         [type |-> "disconnected", clientId |-> x,
                          username |-> IF x \in DOMAIN replica[d].peers
                                       THEN replica[d].peers[x].username ELSE ""])
                       \o CallEach("presence", replica[d].presenceSubscribers,
                                   << replica'[d].presence >>)]_vars

\* C25 witness: a client with onmessage set and a presence subscriber has
\* handled the peer-left of a closed connection, whose username it knew, and
\* invoked first the one, then the other.
C25_Witness ==
  \E d \in Clients : \E x \in Clients \ {d} :
     /\ conn[x] = "closed"
     /\ Settled(d)
     /\ Len(notified) = 2
     /\ notified[1].cb = "onmessage"
     /\ notified[1].data = [type |-> "disconnected", clientId |-> x,
                            username |-> IF MetaOf(x).username # ""
                                         THEN MetaOf(x).username
                                         ELSE DefaultUsername(x)]
     /\ notified[2].cb = "presence"
     /\ notified[2].to = {CallbackOf(d)}
     /\ x \notin DOMAIN replica[d].peers

\* C26: the step that connects x sends init to x first and to x alone, then
\* peer-joined{x, username, avatarUrl} and then presence-updated{x, {}} to
\* every other connection and not to x; and whenever a client's presence
\* subscribers are invoked, every id with an entry in its presence has an
\* entry in its peers.
C26_JoinOrder ==
  [][/\ \A x \in Clients :
          (conn[x] = "none" /\ conn'[x] = "open")
          => LET out == Connected(x).out
             IN /\ Len(out) = 3
                /\ out[1].to = {x} /\ out[1].msg.type = "init"
                /\ out[2] = [to |-> Connections,
                             msg |-> [type |-> "peer-joined", clientId |-> x,
                                      username |-> peers'[x].username,
                                      avatarUrl |-> peers'[x].avatarUrl]]
                /\ out[3] = [to |-> Connections,
                             msg |-> [type |-> "presence-updated", clientId |-> x,
                                      presence |-> EmptyObj]]
                /\ x \notin Connections
                /\ NewFrames(x) = << Stringify(out[1].msg) >>
                /\ \A d \in Connections :
                      NewFrames(d) = << Stringify(out[2].msg), Stringify(out[3].msg) >>
     /\ \A d \in Clients :
          (DeliverNotify(d) /\ CallbackOf(d) \in replica[d].presenceSubscribers
                            /\ \E i \in DOMAIN notified' : notified'[i].cb = "presence")
          => DOMAIN replica'[d].presence \subseteq DOMAIN replica'[d].peers]_vars

\* C26 witness: a client that was connected when another joined has handled
\* the newcomer's empty presence-updated and invoked its presence subscriber
\* with the newcomer in presence and in peers.
C26_Witness ==
  \E d \in Clients : \E x \in Clients \ {d} :
     /\ Settled(d)
     /\ conn[x] = "open"
     /\ first[d] = "init"
     /\ NotifiedPresence(d)
     /\ Len(notified) = 1
     /\ x \in DOMAIN replica[d].presence
     /\ replica[d].presence[x] = EmptyObj
     /\ x \in DOMAIN replica[d].peers
     /\ hist[x] = <<>>
     /\ toServer[x] = <<>>

\* C23: after every connect, close and message the server has handled, the
\* ids with a presence entry are the ids of the peer registry, which are the
\* connections that connected and did not close.
C23_OneEntryPerConnection ==
  /\ DOMAIN presence = DOMAIN peers
  /\ DOMAIN peers = Connections

\* C23 witness: one connection has closed after another changed its
\* presence, and a third is connected too.
C23_Witness ==
  \E c \in Ids : \E d \in Ids \ {c} : \E e \in Ids \ {c, d} :
     /\ conn[c] = "closed" /\ conn[d] = "open" /\ conn[e] = "open"
     /\ DOMAIN presence = {d, e}
     /\ presence[d] # EmptyObj
     /\ presence[e] = EmptyObj

\* C24: a step changes the server's roomState only if it handles an
\* update-room-state message, and the init sent to a connection that joins
\* carries the roomState as it is then, whoever closed before.
C24_RoomStateSurvives ==
  [][/\ roomState' # roomState
          => \E c \in Ids, frame \in Frames :
                /\ Message(c, frame)
                /\ frame.value.type = "update-room-state"
     /\ \A c \in Ids :
          Connect(c) => /\ roomState' = roomState
                        /\ sent'[1].to = {c}
                        /\ sent'[1].msg.type = "init"
                        /\ sent'[1].msg.roomState = roomState
     /\ \A c \in Ids : Close(c) => roomState' = roomState]_vars

\* C24 witness: a connection joins after every earlier one closed, and its
\* init carries the room state the earlier ones left.
C24_Witness ==
  \E c \in Ids :
     /\ Connections = {c}
     /\ \E d \in Ids \ {c} : conn[d] = "closed"
     /\ \A d \in Ids \ {c} : conn[d] # "open"
     /\ hist[c] = <<>>
     /\ presence = [x \in {c} |-> EmptyObj]
     /\ Len(sent) = 3
     /\ sent[1].msg.type = "init"
     /\ sent[1].msg.roomState # EmptyObj
     /\ roomState = sent[1].msg.roomState

\* C27: merging the same source a second time changes nothing: for every
\* target and source, deepMerge(deepMerge(target, source), source) =
\* deepMerge(target, source).
C27_MergeIdempotent ==
  mpc = "done" => deepMerge(mr, ms) = mr

(***************************************************************************)
(* The server handed a message or a close of a connection that has no      *)
(* entry in peers: one that closed before, or one that never connected.    *)
(***************************************************************************)
\* onMessage(message, sender) for a sender that is not an open connection.
StrayMessage(c, frame) ==
  /\ conn[c] # "open"
  /\ Apply(onMessage(Connections, frame, c))
  /\ sent' = onMessage(Connections, frame, c).out
  /\ UNCHANGED <<conn, hist>>

\* onClose(conn) for a connection that is not open.
StrayClose(c) ==
  /\ conn[c] # "open"
  /\ Apply(onClose(Connections, c))
  /\ sent' = onClose(Connections, c).out
  /\ UNCHANGED <<conn, hist>>

\* One well-formed frame of each kind a client sends.
GoodFrames ==
  {Stringify(m) : m \in
     {[type |-> "update-presence", presence |-> p] : p \in LocalPatches}
     \cup {[type |-> "update-room-state", roomState |-> p] : p \in LocalPatches}
     \cup {[type |-> "request-presence-update", targetClientId |-> t, update |-> u] :
             t \in Clients, u \in Updates}
     \cup {[type |-> "broadcast-event", event |-> e] : e \in EventsOf(0)}}

StrayNext ==
  \/ \E c \in Ids : Connect(c) /\ UNCHANGED <<nvars, cvars, mvars>>
  \/ \E c \in Ids, frame \in GoodFrames : Message(c, frame) /\ UNCHANGED <<nvars, cvars, mvars>>
  \/ \E c \in Ids : Close(c) /\ UNCHANGED <<nvars, cvars, mvars>>
  \/ \E c \in Ids, frame \in GoodFrames \cup BadFrames :
        StrayMessage(c, frame) /\ UNCHANGED <<nvars, cvars, mvars>>
  \/ \E c \in Ids : StrayClose(c) /\ UNCHANGED <<nvars, cvars, mvars>>

SpecStray == RelayAloneInit /\ [][StrayNext]_vars

\* Whether the batches hold a peer-left for connection c.
SendsPeerLeft(out, c) ==
  \E i \in DOMAIN out : out[i].msg = [type |-> "peer-left", clientId |-> c]

\* C28: a message of any kind from a sender without an entry in peers, and
\* a close of a connection without an entry, leave roomState, presence and
\* peers as they were and send nothing; a peer-left for a connection is sent
\* only by the step that closes it, so at most once.
C28_StrayIgnored ==
  [][/\ \A c \in Ids, frame \in GoodFrames \cup BadFrames :
          StrayMessage(c, frame)
          => /\ peers' = peers /\ presence' = presence /\ roomState' = roomState
             /\ sent' = <<>>
             /\ ~threw'
     /\ \A c \in Ids :
          StrayClose(c)
          => /\ peers' = peers /\ presence' = presence /\ roomState' = roomState
             /\ sent' = <<>>
             /\ ~threw'
     /\ \A c \in Ids :
          (sent' # sent /\ SendsPeerLeft(sent', c))
          => conn[c] = "open" /\ conn'[c] = "closed"]_vars

\* C28 witness: with a connection closed and no connection open, so that
\* only a stray message or close can have emptied what was sent, the server
\* has handled one and holds the room state the connections left.
C28_Witness ==
  /\ Connections = {}
  /\ \E c \in Ids : conn[c] = "closed"
  /\ sent = <<>>
  /\ ~threw
  /\ roomState # EmptyObj

\* C29: in every state of a client whose initialize() has resolved, every
\* id with an entry in its presence has an entry in its peers.
C29_PresenceHasPeer ==
  \A c \in Clients :
     replica[c].init = "resolved"
     => DOMAIN replica[c].presence \subseteq DOMAIN replica[c].peers

\* C29 witness: a client whose initialize() resolved has called
\* updatePresence and holds, with both ids in its peers, its own presence
\* and the presence another connected client changed.
C29_Witness ==
  \E c \in Clients : \E x \in Clients \ {c} :
     /\ Settled(c)
     /\ first[c] = "init"
     /\ first[x] = "init"
     /\ x \notin DOMAIN presence \/ conn[x] = "open"
     /\ DOMAIN replica[c].presence = {c, x}
     /\ DOMAIN replica[c].peers = {c, x}
     /\ replica[c].presence[c] # EmptyObj
     /\ replica[c].presence[x] # EmptyObj
     /\ replica[c].clientId = c

\* The empty presence the server broadcasts for a connection that joined.
EmptyPresenceFrame(x) ==
  Stringify([type |-> "presence-updated", clientId |-> x, presence |-> EmptyObj])

\* C22: when an initialized client with a presence subscriber gains a peer
\* x by peer-joined, the empty presence-updated of x is the next frame on
\* its way, and unless the client's socket ends first its presence
\* subscribers are invoked in the end with x in its peers; when it loses a
\* peer x, the same step invokes its presence subscribers, with the presence
\* and peers that no longer hold x.
C22_PeersChangeNotifies ==
  /\ [][\A d \in Clients : \A x \in Clients \ {d} :
          /\ (/\ replica[d].init = "resolved"
              /\ x \notin DOMAIN replica[d].peers
              /\ x \in DOMAIN replica'[d].peers)
             => /\ toClient'[d] # <<>>
                /\ Head(toClient'[d]) = EmptyPresenceFrame(x)
                /\ ~NotifiedPresence(d)'
          /\ (/\ replica[d].init = "resolved"
              /\ x \in DOMAIN replica[d].peers
              /\ x \notin DOMAIN replica'[d].peers
              /\ CallbackOf(d) \in replica[d].presenceSubscribers)
             => /\ x \notin DOMAIN replica'[d].presence
                /\ \E i \in DOMAIN notified' :
                      notified'[i] = [cb |-> "presence",
                                      to |-> replica[d].presenceSubscribers,
                                      args |-> << replica'[d].presence >>]]_vars
  /\ \A d \in Clients : \A x \in Clients \ {d} :
        (/\ Settled(d)
         /\ x \in DOMAIN replica[d].peers
         /\ x \notin DOMAIN replica[d].presence
         /\ CallbackOf(d) \in replica[d].presenceSubscribers)
        ~> \/ replica[d].socket # "open"
           \/ /\ NotifiedPresence(d)
              /\ x \in DOMAIN replica[d].peers
              /\ x \in DOMAIN replica[d].presence

\* C22 witness: a client with a presence subscriber that handled another's
\* peer-joined has then handled its empty presence-updated and invoked the
\* subscriber, with the other in its peers.
C22_Witness ==
  \E d \in Clients : \E x \in Clients \ {d} :
     /\ Settled(d)
     /\ first[d] = "init"
     /\ toClient[d] = <<>>
     /\ notified = << [cb |-> "presence", to |-> {CallbackOf(d)},
                       args |-> << replica[d].presence >>] >>
     /\ replica[d].presence = [y \in {d, x} |-> EmptyObj]
     /\ DOMAIN replica[d].peers = {d, x}
     /\ conn[x] = "open"
====
